---------------------------- MODULE Spec2Model ----------------------------
(***************************************************************************)
(* Stimulus-aligned spike extraction and PSTH construction, as written in  *)
(* the exploration scripts and notebooks of the repository.                *)
(*                                                                         *)
(* Times are integer ticks (one tick is an arbitrary fixed fraction of a   *)
(* second); floating-point rounding of the numpy arithmetic is outside the *)
(* model.  A numpy array is a sequence; a rate is the exact fraction       *)
(* [num, den], and den = 0 stands for the nan/inf numpy produces when it   *)
(* divides by zero.                                                        *)
(***************************************************************************)
EXTENDS Integers, Sequences, FiniteSets

VARIABLES
    events,          \* spike times of one unit (spike_times / unit_spikes)
    windows,         \* stimulus presentations, records [start, stop]
    pre,             \* pre_time / pre_stim
    post,            \* post_time / post_stim / trial_window
    pc,              \* "ready" before the call, "done" after it
    fn,              \* the function or script block that ran
    err,             \* "none", or the exception the call ended with
    aligned_spikes,  \* list of per-trial arrays of relative times
    trial_indices,   \* get_raster_data: flattened trial index per spike
    spike_times_rel, \* get_raster_data: flattened relative time per spike
    bin_size,        \* bin_size / bin_width
    t_start,         \* t_start / pre_stim: left end of the analysis range
    t_end,           \* t_end / post_stim: right end of the analysis range
    bins,            \* bin edges
    bin_centers,     \* per-bin centres, fractions [num, den]
    counts,          \* per-bin spike counts before rate conversion
    firing_rate,     \* per-bin rates, fractions [num, den]
    op,              \* the function the step-wise invocations run
    frame,           \* per invocation: position, loop index, outcome
    heap,            \* the list or array each invocation accumulates into
    \* 05_barcode_visualization.py: the per-unit slices of spike_times
    spike_times_index,   \* units['spike_times_index'][:]
    num_spikes,          \* len(spike_times)
    unit_idx,            \* loop variable
    unit_slices,         \* [index_start, index_end] of every unit visited
    \* gemini-2.5-flash notebook: the LFP subset
    lfp_len,             \* lfp_data.shape[0]
    search_result,       \* np.searchsorted(lfp_timestamps, start_time)
    requested,           \* int(duration * sampling_rate)
    start_index,
    end_index,
    num_samples_to_plot,
    \* find_responsive_units
    units_firing_rate,   \* nwb.units.firing_rate[:]
    min_firing_rate,
    max_units,
    unit_ids,
    firing_rates,
    \* compute_responsiveness
    stim_duration,
    pre_count,
    stim_count,
    pre_rate,            \* fraction [num, den]
    stim_rate,           \* fraction [num, den]
    ratio,               \* fraction [num, den]
    \* create_raster_plot
    max_trials,
    \* plot_spike_raster_revised.py
    all_unit_ids,        \* nwb.units.id[:]
    unit_data,           \* per row: what reading its spike times gives
    plot_i,              \* loop index i
    spike_times_list,
    valid_unit_indices,
    plot_unit_ids,
    \* plot_spike_raster.py
    units_len,           \* len(units_df)
    try_i,               \* loop index i
    selected_spike_times,
    selected_unit_ids,
    num_units_to_plot,
    traceback            \* the exception that ended the script, or "none"

libVars == <<events, windows, pre, post, fn, err, aligned_spikes,
             trial_indices, spike_times_rel, bin_size, t_start, t_end,
             bins, bin_centers, counts, firing_rate, op, frame, heap>>
sliceVars == <<spike_times_index, num_spikes, unit_idx, unit_slices>>
lfpVars == <<lfp_len, search_result, requested, start_index, end_index,
             num_samples_to_plot>>
unitVars == <<units_firing_rate, min_firing_rate, max_units, unit_ids,
              firing_rates>>
respVars == <<stim_duration, pre_count, stim_count, pre_rate, stim_rate, ratio>>
rasterVars == <<max_trials>>
intervalVars == <<all_unit_ids, unit_data, plot_i, spike_times_list,
                  valid_unit_indices, plot_unit_ids>>
selectVars == <<units_len, try_i, selected_spike_times, selected_unit_ids,
                num_units_to_plot, traceback>>
scriptVars == <<sliceVars, lfpVars, unitVars, respVars, rasterVars,
                intervalVars, selectVars>>

vars == <<pc, libVars, scriptVars>>

alignVars == <<events, windows, pre, post, aligned_spikes,
               trial_indices, spike_times_rel>>
histVars == <<bin_size, t_start, t_end, bins, bin_centers, counts, firing_rate>>
callVars == <<op, frame, heap>>

(***************************************************************************)
(* The variables of a script that is not the one running.                  *)
(***************************************************************************)
SlicesIdle ==
    /\ spike_times_index = <<>> /\ num_spikes = 0
    /\ unit_idx = 0 /\ unit_slices = <<>>
LfpIdle ==
    /\ lfp_len = 0 /\ search_result = 0 /\ requested = 0
    /\ start_index = 0 /\ end_index = 0 /\ num_samples_to_plot = 0
UnitsIdle ==
    /\ units_firing_rate = <<>> /\ min_firing_rate = 0 /\ max_units = 0
    /\ unit_ids = <<>> /\ firing_rates = <<>>
RespIdle ==
    /\ stim_duration = 0 /\ pre_count = 0 /\ stim_count = 0
    /\ pre_rate = <<>> /\ stim_rate = <<>> /\ ratio = <<>>
RasterIdle == max_trials = 0
IntervalIdle ==
    /\ all_unit_ids = <<>> /\ unit_data = <<>> /\ plot_i = 0
    /\ spike_times_list = <<>> /\ valid_unit_indices = <<>>
    /\ plot_unit_ids = <<>>
SelectIdle ==
    /\ units_len = 0 /\ try_i = 0
    /\ selected_spike_times = <<>> /\ selected_unit_ids = <<>>
    /\ num_units_to_plot = 0 /\ traceback = "none"
ScriptsIdle ==
    /\ SlicesIdle /\ LfpIdle /\ UnitsIdle /\ RespIdle /\ RasterIdle
    /\ IntervalIdle /\ SelectIdle

(***************************************************************************)
(* Bounds of the model.                                                    *)
(***************************************************************************)
MaxTime == 2       \* event and window start times range over 0..MaxTime
MaxEvents == 2     \* at most this many events
MaxWindows == 2    \* at most this many windows
MaxTrials == 2     \* histogram input: at most this many aligned trials
MaxSpikes == 2     \* histogram input: at most this many relative times in all
MaxRel == 3        \* histogram input: relative times and range ends <= MaxRel
MaxBin == 2        \* bin widths range over 1..MaxBin

Durations == 0..1  \* stop - start of a window
Margins == -1..1   \* pre and post margins offered to the align functions
RelTimes == -1..MaxRel  \* relative times handed to the histogram code
RangeStarts == -1..0    \* left ends of the analysis range

SeqsUpTo(S, n) == UNION {[1..k -> S] : k \in 0..n}
IsSorted(s) == \A k \in 1..(Len(s) - 1) : s[k] <= s[k + 1]
SortedSeqs(S, n) == {s \in SeqsUpTo(S, n) : IsSorted(s)}

WindowSet == {[start |-> s, stop |-> s + d] : s \in 0..MaxTime, d \in Durations}
Starts(ws) == [k \in 1..Len(ws) |-> ws[k].start]
Stops(ws) == [k \in 1..Len(ws) |-> ws[k].stop]

Min(a, b) == IF a <= b THEN a ELSE b

(***************************************************************************)
(* numpy helpers.                                                          *)
(***************************************************************************)
\* The mutant subtracts the wrong way round.
Minus_reversed(arr, t) == [k \in 1..Len(arr) |-> t - arr[k]]

\* arr - t, elementwise.
Minus(arr, t) == [k \in 1..Len(arr) |-> arr[k] - t]

\* The mutant leaves the upper bound out of the mask.
MaskClosed_strict(arr, lo, hi) == SelectSeq(arr, LAMBDA s : s >= lo /\ s < hi)

\* arr[mask] with mask = (arr >= lo) & (arr <= hi): boolean-mask indexing
\* keeps the selected elements in array order.
MaskClosed(arr, lo, hi) == SelectSeq(arr, LAMBDA s : s >= lo /\ s <= hi)

\* arr[mask] with mask = (arr >= lo) & (arr < hi).
MaskHalfOpen(arr, lo, hi) == SelectSeq(arr, LAMBDA s : s >= lo /\ s < hi)

(***************************************************************************)
(* get_aligned_spikes (05_barcode_visualization.py, 06_compare_barcodes.py)*)
(***************************************************************************)
\* The mutant keeps a trial out of the list when no spike is selected.
get_aligned_spikes_body_skip(acc, unit_spikes, stim_time, pre_stim, post_stim) ==
    LET sel == MaskClosed(unit_spikes, stim_time - pre_stim, stim_time + post_stim)
    IN  IF Len(sel) > 0 THEN Append(acc, Minus(sel, stim_time)) ELSE acc

\* One iteration of the loop over stim_times.
get_aligned_spikes_body(acc, unit_spikes, stim_time, pre_stim, post_stim) ==
    LET sel == MaskClosed(unit_spikes, stim_time - pre_stim, stim_time + post_stim)
    IN  IF Len(sel) > 0
        THEN Append(acc, Minus(sel, stim_time))
        ELSE Append(acc, <<>>)

RECURSIVE get_aligned_spikes_loop(_, _, _, _, _)
get_aligned_spikes_loop(acc, unit_spikes, stim_times, pre_stim, post_stim) ==
    IF stim_times = <<>>
    THEN acc
    ELSE get_aligned_spikes_loop(
             get_aligned_spikes_body(acc, unit_spikes, Head(stim_times),
                                     pre_stim, post_stim),
             unit_spikes, Tail(stim_times), pre_stim, post_stim)

\* The mutant validates the margins, as the design document asks.
get_aligned_spikes_validating(unit_spikes, stim_times, pre_stim, post_stim) ==
    IF pre_stim < 0 \/ post_stim < 0
    THEN [err |-> "InvalidArgument", ret |-> <<>>]
    ELSE [err |-> "none",
          ret |-> get_aligned_spikes_loop(<<>>, unit_spikes, stim_times,
                                          pre_stim, post_stim)]

get_aligned_spikes(unit_spikes, stim_times, pre_stim, post_stim) ==
    [err |-> "none",
     ret |-> get_aligned_spikes_loop(<<>>, unit_spikes, stim_times,
                                     pre_stim, post_stim)]

(***************************************************************************)
(* create_spike_raster (claude-3.7-sonnet-prompt-e-2 notebook)             *)
(***************************************************************************)
\* The mutant takes relative times from the stimulus stop.
create_spike_raster_body_stop(acc, spike_times, start, stop, pre_time, post_time) ==
    LET trial_spikes == MaskClosed(spike_times, start - pre_time, stop + post_time)
    IN  Append(acc, Minus(trial_spikes, stop))

\* One iteration of the loop over zip(stim_starts, stim_stops).
create_spike_raster_body(acc, spike_times, start, stop, pre_time, post_time) ==
    LET trial_spikes == MaskClosed(spike_times, start - pre_time, stop + post_time)
        relative_times == Minus(trial_spikes, start)
    IN  Append(acc, relative_times)

RECURSIVE create_spike_raster_loop(_, _, _, _, _, _, _)
create_spike_raster_loop(acc, i, spike_times, stim_starts, stim_stops, pre_time, post_time) ==
    IF i > Min(Len(stim_starts), Len(stim_stops))
    THEN acc
    ELSE create_spike_raster_loop(
             create_spike_raster_body(acc, spike_times, stim_starts[i],
                                      stim_stops[i], pre_time, post_time),
             i + 1, spike_times, stim_starts, stim_stops, pre_time, post_time)

create_spike_raster(spike_times, stim_starts, stim_stops, pre_time, post_time) ==
    [err |-> "none",
     ret |-> create_spike_raster_loop(<<>>, 1, spike_times, stim_starts,
                                      stim_stops, pre_time, post_time)]

(***************************************************************************)
(* get_raster_data (claude-3.7-sonnet-prompt-g-2 explore_units.py)         *)
(***************************************************************************)
\* The mutant numbers the trials that hold a spike consecutively.
get_raster_data_body_renumber(acc, i, spike_times, start_time, trial_window) ==
    LET end_time == start_time + trial_window
        spikes_in_window == MaskHalfOpen(spike_times, start_time, end_time)
        n == Cardinality({acc.trial_indices[p] : p \in 1..Len(acc.trial_indices)})
    IN  IF Len(spikes_in_window) > 0
        THEN [trial_indices |->
                  acc.trial_indices \o [k \in 1..Len(spikes_in_window) |-> n],
              spike_times_rel |->
                  acc.spike_times_rel \o Minus(spikes_in_window, start_time)]
        ELSE acc

\* One iteration of the loop over enumerate(trial_start_times); i is the
\* 0-based trial index, acc the pair of lists built so far.
get_raster_data_body(acc, i, spike_times, start_time, trial_window) ==
    LET end_time == start_time + trial_window
        spikes_in_window == MaskHalfOpen(spike_times, start_time, end_time)
    IN  IF Len(spikes_in_window) > 0
        THEN [trial_indices |->
                  acc.trial_indices \o [k \in 1..Len(spikes_in_window) |-> i],
              spike_times_rel |->
                  acc.spike_times_rel \o Minus(spikes_in_window, start_time)]
        ELSE acc

RECURSIVE get_raster_data_loop(_, _, _, _, _)
get_raster_data_loop(acc, i, spike_times, trial_start_times, trial_window) ==
    IF i >= Len(trial_start_times)
    THEN acc
    ELSE get_raster_data_loop(
             get_raster_data_body(acc, i, spike_times,
                                  trial_start_times[i + 1], trial_window),
             i + 1, spike_times, trial_start_times, trial_window)

get_raster_data(spike_times, trial_start_times, trial_window) ==
    get_raster_data_loop([trial_indices |-> <<>>, spike_times_rel |-> <<>>],
                         0, spike_times, trial_start_times, trial_window)

(***************************************************************************)
(* The alignment calls.                                                    *)
(***************************************************************************)
HistIdle ==
    /\ bin_size = 1 /\ t_start = 0 /\ t_end = 0
    /\ bins = <<>> /\ bin_centers = <<>> /\ counts = <<>> /\ firing_rate = <<>>

\* The invocations that run step by step: two of them.
Invocations == 1..2

IdleFrame == [pc |-> "idle", i |-> 0, err |-> "none", ret |-> <<>>]

\* No step-wise invocation is under way.
NoCalls ==
    /\ frame = [p \in Invocations |-> IdleFrame]
    /\ heap = [p \in Invocations |-> <<>>]

InitAlign ==
    /\ events \in SortedSeqs(0..MaxTime, MaxEvents)
    /\ windows \in SeqsUpTo(WindowSet, MaxWindows)
    /\ pre \in Margins
    /\ post \in Margins
    /\ pc = "ready" /\ fn = "none" /\ err = "none"
    /\ aligned_spikes = <<>>
    /\ trial_indices = <<>> /\ spike_times_rel = <<>>
    /\ HistIdle
    /\ op = "none" /\ NoCalls
    /\ ScriptsIdle

CallGetAlignedSpikes ==
    /\ pc = "ready"
    /\ LET r == get_aligned_spikes(events, Starts(windows), pre, post)
       IN  /\ err' = r.err
           /\ aligned_spikes' = r.ret
    /\ pc' = "done" /\ fn' = "get_aligned_spikes"
    /\ UNCHANGED <<events, windows, pre, post, trial_indices, spike_times_rel>>
    /\ UNCHANGED histVars
    /\ UNCHANGED callVars
    /\ UNCHANGED scriptVars

CallCreateSpikeRaster ==
    /\ pc = "ready"
    /\ LET r == create_spike_raster(events, Starts(windows), Stops(windows),
                                    pre, post)
       IN  /\ err' = r.err
           /\ aligned_spikes' = r.ret
    /\ pc' = "done" /\ fn' = "create_spike_raster"
    /\ UNCHANGED <<events, windows, pre, post, trial_indices, spike_times_rel>>
    /\ UNCHANGED histVars
    /\ UNCHANGED callVars
    /\ UNCHANGED scriptVars

CallGetRasterData ==
    /\ pc = "ready"
    /\ LET r == get_raster_data(events, Starts(windows), post)
       IN  /\ trial_indices' = r.trial_indices
           /\ spike_times_rel' = r.spike_times_rel
    /\ pc' = "done" /\ fn' = "get_raster_data"
    /\ UNCHANGED <<events, windows, pre, post, err, aligned_spikes>>
    /\ UNCHANGED histVars
    /\ UNCHANGED callVars
    /\ UNCHANGED scriptVars

NextAlign ==
    \/ CallGetAlignedSpikes
    \/ CallCreateSpikeRaster
    \/ CallGetRasterData

SpecAlign == InitAlign /\ [][NextAlign]_vars

(***************************************************************************)
(* numpy helpers of the histogram code.                                    *)
(***************************************************************************)
\* np.arange(start, stop, step): start, start + step, ... as long as the
\* value is before stop, max(0, ceil((stop - start) / step)) values; with a
\* negative step the values decrease.  A step of 0 makes np.arange raise
\* (arange_step_zero_errors) and is not evaluated here.
Arange(start, stop, step) ==
    LET n == IF step > 0 /\ stop > start
             THEN (stop - start + step - 1) \div step
             ELSE IF step < 0 /\ stop < start
                  THEN (start - stop + (-step) - 1) \div (-step)
                  ELSE 0
    IN  [k \in 1..n |-> start + (k - 1) * step]

\* What np.arange raises for step = 0: the length is (stop - start) / step,
\* a ZeroDivisionError between Python numbers; between numpy scalars the
\* quotient is inf or nan and the length check raises ValueError.
arange_step_zero_errors == {"ZeroDivisionError", "ValueError"}

\* np.histogram rejects edges that decrease somewhere (ValueError), whatever
\* the data.
np_histogram_accepts(bin_edges) ==
    \A k \in 1..(Len(bin_edges) - 1) : bin_edges[k] <= bin_edges[k + 1]

\* The mutant closes no bin on the right.
np_histogram_halfopen(a, bin_edges) ==
    [b \in 1..(Len(bin_edges) - 1) |->
        Cardinality({k \in 1..Len(a) :
            a[k] >= bin_edges[b] /\ a[k] < bin_edges[b + 1]})]

\* np.histogram(a, bins=bin_edges)[0] for increasing edges: bin b holds the
\* values in [edge b, edge b+1), and the last bin also its right edge.
np_histogram(a, bin_edges) ==
    [b \in 1..(Len(bin_edges) - 1) |->
        Cardinality({k \in 1..Len(a) :
            /\ a[k] >= bin_edges[b]
            /\ IF b = Len(bin_edges) - 1
               THEN a[k] <= bin_edges[b + 1]
               ELSE a[k] < bin_edges[b + 1]})]

\* np.concatenate(arrays) of a non-empty list of arrays.
RECURSIVE np_concatenate(_)
np_concatenate(arrays) ==
    IF arrays = <<>> THEN <<>> ELSE Head(arrays) \o np_concatenate(Tail(arrays))

\* The mutant takes a baseline of one count off every bin.
RateOf_baseline(cnt, d) == [b \in 1..Len(cnt) |-> [num |-> cnt[b] - 1, den |-> d]]

\* counts / d, elementwise; numpy divides by zero without raising.
RateOf(cnt, d) == [b \in 1..Len(cnt) |-> [num |-> cnt[b], den |-> d]]

(***************************************************************************)
(* create_psth (claude-3.7-sonnet-prompt-e-2 notebook)                     *)
(***************************************************************************)
\* The mutant keeps the histogram of the last trial only.
create_psth_accumulate_overwrite(cnt, spikes, edges) == np_histogram(spikes, edges)

\* One iteration of the loop over aligned_spikes: counts += hist.
create_psth_accumulate(cnt, spikes, edges) ==
    LET hist == np_histogram(spikes, edges)
    IN  [b \in 1..Len(cnt) |-> cnt[b] + hist[b]]

RECURSIVE create_psth_loop(_, _, _)
create_psth_loop(cnt, trials, edges) ==
    IF trials = <<>>
    THEN cnt
    ELSE create_psth_loop(create_psth_accumulate(cnt, Head(trials), edges),
                          Tail(trials), edges)

\* The function checks none of its arguments.  An exception of numpy ends
\* it with nothing returned: from np.arange when bin_size is 0, from
\* np.zeros(len(bins) - 1) when bins has no element (t_end <= t_start, or a
\* negative bin_size with t_end >= t_start), from the first np.histogram
\* call when the edges decrease.  The record of a failed call holds the
\* locals assigned before the exception.  Anything else is returned, rates
\* divided by bin_size * 0 for an empty list of trials included.
create_psth(trials, size, start, stop) ==
    LET edges == Arange(start, stop, size)
        centers == [b \in 1..(Len(edges) - 1) |->
                       [num |-> 2 * edges[b] + size, den |-> 2]]
        zeros == [b \in 1..(Len(edges) - 1) |-> 0]
        cnt == create_psth_loop(zeros, trials, edges)
    IN  IF size = 0
        THEN [err |-> "ZeroDivisionError", bins |-> <<>>, bin_centers |-> <<>>,
              counts |-> <<>>, firing_rate |-> <<>>]
        ELSE IF Len(edges) = 0
        THEN [err |-> "ValueError", bins |-> edges, bin_centers |-> <<>>,
              counts |-> <<>>, firing_rate |-> <<>>]
        ELSE IF trials # <<>> /\ ~np_histogram_accepts(edges)
        THEN [err |-> "ValueError", bins |-> edges, bin_centers |-> centers,
              counts |-> zeros, firing_rate |-> <<>>]
        ELSE [err |-> "none", bins |-> edges, bin_centers |-> centers,
              counts |-> cnt,
              firing_rate |-> RateOf(cnt, size * Len(trials))]

\* The ways a call can end: one, except that the exception np.arange raises
\* for bin_size = 0 depends on the number types handed in.
create_psth_outcomes(trials, size, start, stop) ==
    IF size = 0
    THEN {[create_psth(trials, size, start, stop) EXCEPT !.err = e] :
          e \in arange_step_zero_errors}
    ELSE {create_psth(trials, size, start, stop)}

(***************************************************************************)
(* The PSTH blocks of 05_barcode_visualization.py and 06_compare_barcodes  *)
(***************************************************************************)
stim_subset_size == 100

\* (bin_edges[:-1] + bin_edges[1:]) / 2
EdgeCenters(edges) ==
    [b \in 1..(Len(edges) - 1) |-> [num |-> edges[b] + edges[b + 1], den |-> 2]]

\* 05: bins reach one bin_width past post_stim; the rate is taken over the
\* requested number of presentations.
psth05(trials, bin_width, pre_stim, post_stim) ==
    LET edges == Arange(pre_stim, post_stim + bin_width, bin_width)
        all_spikes == np_concatenate(trials)
        psth == np_histogram(all_spikes, edges)
    IN  [err |-> "none", bins |-> edges, bin_centers |-> EdgeCenters(edges),
         counts |-> psth,
         firing_rate |-> RateOf(psth, stim_subset_size * bin_width)]

\* 06: left is -pre_stim; the rate is taken over len(stim_times_subset),
\* the number of presentations that were aligned.
psth06(trials, bin_width, left, post_stim) ==
    LET edges == Arange(left, post_stim + bin_width, bin_width)
        all_spikes == np_concatenate(trials)
        hist == np_histogram(all_spikes, edges)
    IN  [err |-> "none", bins |-> edges, bin_centers |-> EdgeCenters(edges),
         counts |-> hist,
         firing_rate |-> RateOf(hist, Len(trials) * bin_width)]

(***************************************************************************)
(* The histogram calls.                                                    *)
(***************************************************************************)
\* The elements of s at the positions pos, in order.
SubSeqAt(s, pos) ==
    [j \in 1..Cardinality(pos) |->
        s[CHOOSE p \in pos : Cardinality({q \in pos : q <= p}) = j]]

\* Lists of at most MaxTrials sorted trials that hold at most MaxSpikes
\* relative times in all: a sorted sequence dealt out to the trials.
TrialLists ==
    UNION {UNION {{[i \in 1..n |->
                       SubSeqAt(flat, {p \in 1..Len(flat) : owner[p] = i})] :
                   owner \in [1..Len(flat) -> 1..n]} :
                  flat \in SortedSeqs(RelTimes, MaxSpikes)} :
           n \in 0..MaxTrials}

\* bin_size and the range are arguments nothing restricts: widths of zero
\* and below and ranges that end before they start are among the calls.
BinSizes == -1..MaxBin
RangeEnds(start) == (start - 2)..MaxRel

InitHist ==
    /\ aligned_spikes \in TrialLists
    /\ bin_size \in BinSizes
    /\ t_start \in RangeStarts
    /\ t_end \in RangeEnds(t_start)
    /\ pc = "ready" /\ fn = "none" /\ err = "none"
    /\ bins = <<>> /\ bin_centers = <<>> /\ counts = <<>> /\ firing_rate = <<>>
    /\ events = <<>> /\ windows = <<>> /\ pre = 0 /\ post = 0
    /\ trial_indices = <<>> /\ spike_times_rel = <<>>
    /\ op = "none" /\ NoCalls
    /\ ScriptsIdle

Return(r, name) ==
    /\ err' = r.err
    /\ bins' = r.bins
    /\ bin_centers' = r.bin_centers
    /\ counts' = r.counts
    /\ firing_rate' = r.firing_rate
    /\ pc' = "done" /\ fn' = name
    /\ UNCHANGED <<bin_size, t_start, t_end>>
    /\ UNCHANGED alignVars
    /\ UNCHANGED callVars
    /\ UNCHANGED scriptVars

CallCreatePsth ==
    /\ pc = "ready"
    /\ \E r \in create_psth_outcomes(aligned_spikes, bin_size, t_start, t_end) :
           Return(r, "create_psth")

\* The bin width of the two scripts is a positive literal and their range
\* runs from -pre_stim (0 in 05) up to a post_stim that is not below it.
ScriptBins == bin_size > 0 /\ t_end >= t_start

\* The block runs for a unit that was found responsive, which takes spikes
\* in at least one aligned presentation.
Psth05 ==
    /\ pc = "ready"
    /\ ScriptBins
    /\ Len(aligned_spikes) > 0
    /\ Len(aligned_spikes) <= stim_subset_size
    /\ Return(psth05(aligned_spikes, bin_size, t_start, t_end), "psth05")

Psth06 ==
    /\ pc = "ready"
    /\ ScriptBins
    /\ Len(aligned_spikes) > 0
    /\ Return(psth06(aligned_spikes, bin_size, t_start, t_end), "psth06")

NextHist ==
    \/ CallCreatePsth
    \/ Psth05
    \/ Psth06

SpecHist == InitHist /\ [][NextHist]_vars

(***************************************************************************)
(* Invocations that run step by step.                                      *)
(*                                                                         *)
(* get_aligned_spikes (06_compare_barcodes.py) and create_psth, one loop   *)
(* iteration per step, in two invocations on the same arguments whose      *)
(* steps interleave freely: one after the other (as the script calls       *)
(* get_aligned_spikes at lines 147 and 189 with the same arguments), or    *)
(* concurrently.  The arguments are the variables events, windows, pre and *)
(* post for get_aligned_spikes, and aligned_spikes, bin_size, t_start and  *)
(* t_end for create_psth.                                                  *)
(***************************************************************************)
\* The mutant accumulates in one module-level list for all invocations.
AccSlot_shared(p) == 1

\* The list (aligned_spikes = []) or array (counts = np.zeros(...)) an
\* invocation accumulates into is created by that invocation: a local name.
AccSlot(p) == p

\* The mutant shifts the caller's array in place (unit_spikes -= stim_time).
unit_spikes_after_inplace(unit_spikes, stim_time) == Minus(unit_spikes, stim_time)

\* The caller's array after one loop iteration: unit_spikes[mask] is a copy
\* and the subtraction allocates its result, so the array is as before.
unit_spikes_after(unit_spikes, stim_time) == unit_spikes

\* The windows of the step-wise calls: stimulus times only.
StimTimes == {w \in WindowSet : w.stop = w.start}

\* The margins of the step-wise calls.
ValidMargins == {m \in Margins : m >= 0}

InitCalls ==
    /\ \/ /\ op = "get_aligned_spikes"
          /\ events \in SortedSeqs(0..MaxTime, MaxEvents)
          /\ windows \in SeqsUpTo(StimTimes, MaxWindows)
          /\ pre \in ValidMargins
          /\ post \in ValidMargins
          /\ aligned_spikes = <<>>
          /\ bin_size = 1 /\ t_start = 0 /\ t_end = 0
       \/ /\ op = "create_psth"
          /\ aligned_spikes \in TrialLists
          /\ bin_size \in BinSizes
          /\ t_start \in RangeStarts
          /\ t_end \in {t_start - 2, MaxRel}
          /\ events = <<>> /\ windows = <<>> /\ pre = 0 /\ post = 0
    /\ pc = "ready" /\ fn = "none" /\ err = "none"
    /\ trial_indices = <<>> /\ spike_times_rel = <<>>
    /\ bins = <<>> /\ bin_centers = <<>> /\ counts = <<>> /\ firing_rate = <<>>
    /\ NoCalls
    /\ ScriptsIdle

\* The arguments of the step-wise calls apart from events.
otherArgs == <<windows, pre, post, bin_size, t_start, t_end>>
\* What only the one-step calls assign.
resultVars == <<pc, fn, err, trial_indices, spike_times_rel,
                bins, bin_centers, counts, firing_rate>>

Raise(p, e) ==
    /\ frame' = [frame EXCEPT ![p].pc = "raised", ![p].err = e]
    /\ UNCHANGED heap

\* The loop of invocation p runs over this many elements.
LoopLen == IF op = "create_psth" THEN Len(aligned_spikes) ELSE Len(windows)

\* Invocation p is called and runs up to its loop.
Enter(p) ==
    /\ frame[p].pc = "idle"
    /\ IF op = "get_aligned_spikes"
       THEN /\ heap' = [heap EXCEPT ![AccSlot(p)] = <<>>]
            /\ frame' = [frame EXCEPT ![p].pc = "loop"]
       ELSE LET edges == Arange(t_start, t_end, bin_size)
            IN  IF bin_size = 0
                THEN \E e \in arange_step_zero_errors : Raise(p, e)
                ELSE IF Len(edges) = 0
                THEN Raise(p, "ValueError")
                ELSE /\ heap' = [heap EXCEPT ![AccSlot(p)] =
                                    [b \in 1..(Len(edges) - 1) |-> 0]]
                     /\ frame' = [frame EXCEPT ![p].pc = "loop"]
    /\ UNCHANGED <<op, events, aligned_spikes>>
    /\ UNCHANGED otherArgs
    /\ UNCHANGED resultVars
    /\ UNCHANGED scriptVars

\* One iteration of the loop of invocation p.
Iterate(p) ==
    /\ frame[p].pc = "loop"
    /\ frame[p].i < LoopLen
    /\ IF op = "get_aligned_spikes"
       THEN LET stim_time == Starts(windows)[frame[p].i + 1]
            IN  /\ heap' = [heap EXCEPT ![AccSlot(p)] =
                               get_aligned_spikes_body(heap[AccSlot(p)], events,
                                                       stim_time, pre, post)]
                /\ frame' = [frame EXCEPT ![p].i = @ + 1]
                /\ events' = unit_spikes_after(events, stim_time)
       ELSE LET edges == Arange(t_start, t_end, bin_size)
                spikes == aligned_spikes[frame[p].i + 1]
            IN  /\ IF np_histogram_accepts(edges)
                   THEN /\ heap' = [heap EXCEPT ![AccSlot(p)] =
                                       create_psth_accumulate(heap[AccSlot(p)],
                                                              spikes, edges)]
                        /\ frame' = [frame EXCEPT ![p].i = @ + 1]
                   ELSE Raise(p, "ValueError")
                /\ UNCHANGED events
    /\ UNCHANGED <<op, aligned_spikes>>
    /\ UNCHANGED otherArgs
    /\ UNCHANGED resultVars
    /\ UNCHANGED scriptVars

\* The loop of invocation p is over and the function returns.
Leave(p) ==
    /\ frame[p].pc = "loop"
    /\ frame[p].i = LoopLen
    /\ LET edges == Arange(t_start, t_end, bin_size)
           ret == IF op = "get_aligned_spikes"
                  THEN heap[AccSlot(p)]
                  ELSE [bin_centers |->
                            [b \in 1..(Len(edges) - 1) |->
                                [num |-> 2 * edges[b] + bin_size, den |-> 2]],
                        firing_rate |->
                            RateOf(heap[AccSlot(p)],
                                   bin_size * Len(aligned_spikes))]
       IN  frame' = [frame EXCEPT ![p].pc = "returned", ![p].ret = ret]
    /\ UNCHANGED <<op, heap, events, aligned_spikes>>
    /\ UNCHANGED otherArgs
    /\ UNCHANGED resultVars
    /\ UNCHANGED scriptVars

\* Another call the script makes at any moment of the two invocations.
CallBetween ==
    /\ op = "get_aligned_spikes"
    /\ CallGetAlignedSpikes

NextCalls ==
    \/ \E p \in Invocations : Enter(p)
    \/ \E p \in Invocations : Iterate(p)
    \/ \E p \in Invocations : Leave(p)
    \/ CallBetween

SpecCalls == InitCalls /\ [][NextCalls]_vars

(***************************************************************************)
(* Properties of the alignment functions.                                  *)
(***************************************************************************)
AlignDone == pc = "done" /\ fn \in {"get_aligned_spikes", "create_spike_raster"}

\* The bounds each function puts on the events of window i.
RetLo(i) == windows[i].start - pre
RetHi(i) ==
    IF fn = "create_spike_raster"
    THEN windows[i].stop + post
    ELSE windows[i].start + post

\* out holds e - start for exactly the events e with lo <= e <= hi
\* (e < hi when the right end is open), in the order of events.
ExactSelection(out, start, lo, hi, closed) ==
    LET idx == {k \in 1..Len(events) :
                    /\ events[k] >= lo
                    /\ IF closed THEN events[k] <= hi ELSE events[k] < hi}
    IN  /\ Len(out) = Cardinality(idx)
        /\ \A k \in idx :
               out[Cardinality({m \in idx : m <= k})] = events[k] - start

\* The relative times get_raster_data attributes to the 0-based trial i.
TrialPart(i) ==
    LET pos == {p \in 1..Len(trial_indices) : trial_indices[p] = i}
    IN  [j \in 1..Cardinality(pos) |->
            spike_times_rel[CHOOSE p \in pos :
                                Cardinality({q \in pos : q <= p}) = j]]

\* C1: get_aligned_spikes and create_spike_raster return exactly one entry
\* per window, in window order: the result is as long as the window list and
\* entry i holds as many relative times as window i retains events, each of
\* them an event time taken relative to the start of window i.
C1_OnePerWindow ==
    AlignDone =>
        /\ Len(aligned_spikes) = Len(windows)
        /\ \A i \in 1..Len(windows) :
               /\ Len(aligned_spikes[i]) =
                      Cardinality({k \in 1..Len(events) :
                          events[k] >= RetLo(i) /\ events[k] <= RetHi(i)})
               /\ \A j \in 1..Len(aligned_spikes[i]) :
                      \E k \in 1..Len(events) :
                          events[k] = aligned_spikes[i][j] + windows[i].start

\* A window that retains nothing keeps its (empty) place before one that
\* retains an event.
C1_Witness ==
    /\ AlignDone
    /\ fn = "get_aligned_spikes"
    /\ Len(windows) = 2
    /\ aligned_spikes[1] = <<>>
    /\ aligned_spikes[2] # <<>>

\* C2 as stated: every align variant selects for window w exactly the events
\* in [w.start - pre, w.start + post], both ends closed, and emits e - w.start.
C2_Original ==
    /\ AlignDone =>
           \A i \in 1..Len(windows) :
               /\ i <= Len(aligned_spikes)
               /\ ExactSelection(aligned_spikes[i], windows[i].start,
                                 windows[i].start - pre,
                                 windows[i].start + post, TRUE)
    /\ (pc = "done" /\ fn = "get_raster_data") =>
           \A i \in 1..Len(windows) :
               ExactSelection(TrialPart(i - 1), windows[i].start,
                              windows[i].start, windows[i].start + post, TRUE)

\* C2 (amended): get_aligned_spikes selects for window w exactly the events in
\* [w.start - pre, w.start + post]; create_spike_raster exactly those in
\* [w.start - pre, w.stop + post]; get_raster_data exactly those in
\* [w.start, w.start + trial_window), right end open; each emits e - w.start
\* for the selected events, in the order of events.
C2_Selection ==
    /\ AlignDone =>
           /\ Len(aligned_spikes) = Len(windows)
           /\ \A i \in 1..Len(windows) :
                  ExactSelection(aligned_spikes[i], windows[i].start,
                                 RetLo(i), RetHi(i), TRUE)
    /\ (pc = "done" /\ fn = "get_raster_data") =>
           /\ Len(trial_indices) = Len(spike_times_rel)
           /\ \A p \in 1..Len(trial_indices) :
                  trial_indices[p] \in 0..(Len(windows) - 1)
           /\ \A i \in 1..Len(windows) :
                  ExactSelection(TrialPart(i - 1), windows[i].start,
                                 windows[i].start, windows[i].start + post, FALSE)

\* create_spike_raster keeps an event that lies after start + post_time,
\* and an event on the closed upper bound stop + post_time.
C2_Witness ==
    /\ AlignDone
    /\ fn = "create_spike_raster"
    /\ \E i \in 1..Len(windows) :
           /\ windows[i].stop > windows[i].start
           /\ \E j \in 1..Len(aligned_spikes[i]) :
                  /\ aligned_spikes[i][j] > post
                  /\ aligned_spikes[i][j] + windows[i].start = RetHi(i)

\* C3 as stated: every relative time of every trial lies in [-pre, post].
C3_Original ==
    AlignDone =>
        \A i \in 1..Len(aligned_spikes) :
            \A j \in 1..Len(aligned_spikes[i]) :
                /\ aligned_spikes[i][j] >= -pre
                /\ aligned_spikes[i][j] <= post

\* C3 (amended): every relative time returned by get_aligned_spikes lies in
\* [-pre, post]; every relative time create_spike_raster returns for window w
\* lies in [-pre, (w.stop - w.start) + post].
C3_Range ==
    AlignDone =>
        /\ Len(aligned_spikes) <= Len(windows)
        /\ \A i \in 1..Len(aligned_spikes) :
               \A j \in 1..Len(aligned_spikes[i]) :
                   /\ aligned_spikes[i][j] >= -pre
                   /\ aligned_spikes[i][j] <=
                          (IF fn = "create_spike_raster"
                           THEN windows[i].stop - windows[i].start
                           ELSE 0) + post

\* Both ends of the interval are taken: one trial holds -pre and post.
C3_Witness ==
    /\ AlignDone
    /\ fn = "get_aligned_spikes"
    /\ pre > 0 /\ post > 0
    /\ \E i \in 1..Len(aligned_spikes) :
           /\ Len(aligned_spikes[i]) = 2
           /\ aligned_spikes[i][1] = -pre
           /\ aligned_spikes[i][2] = post

\* The stop-time lists that go with the start times of windows.
OtherStops ==
    {st \in [1..Len(windows) -> 0..(MaxTime + 1)] :
        \A i \in 1..Len(windows) : st[i] - windows[i].start \in Durations}

\* The values of a trial that are at most hi.
UpTo(trial, hi) == SelectSeq(trial, LAMBDA v : v <= hi)

\* C4 as stated: the output does not depend on the stop times.
C4_Original ==
    (AlignDone /\ fn = "create_spike_raster") =>
        \A st \in OtherStops :
            create_spike_raster(events, Starts(windows), st, pre, post).ret
                = aligned_spikes

\* C4 (amended): create_spike_raster measures the retention interval from the
\* window start on the left and from the window stop on the right.  For two
\* window lists with identical start times and different stop times its two
\* outputs agree, trial by trial, on every relative time that is at most
\* min(stop, stop') - start + post_time, and may differ above it.
C4_StartAndStop ==
    (AlignDone /\ fn = "create_spike_raster") =>
        \A st \in OtherStops :
            LET other == create_spike_raster(events, Starts(windows), st,
                                             pre, post).ret
            IN  /\ Len(other) = Len(aligned_spikes)
                /\ \A i \in 1..Len(windows) :
                       LET hi == Min(st[i], windows[i].stop)
                                     - windows[i].start + post
                       IN  UpTo(other[i], hi) = UpTo(aligned_spikes[i], hi)

\* Two window lists with the same starts and different stops whose outputs
\* differ.
C4_Witness ==
    /\ AlignDone
    /\ fn = "create_spike_raster"
    /\ \E st \in OtherStops :
           /\ st # Stops(windows)
           /\ create_spike_raster(events, Starts(windows), st, pre, post).ret
                  # aligned_spikes

HistEnded == pc = "done" /\ fn \in {"create_psth", "psth05", "psth06"}

\* A histogram call with a positive bin width has ended.
HistDone == HistEnded /\ bin_size > 0

\* The positions <<trial, index>> of all relative times handed in.
AllPos ==
    UNION {{<<i, j>> : j \in 1..Len(aligned_spikes[i])} :
           i \in 1..Len(aligned_spikes)}

\* How many relative times, over all trials, satisfy P.
CountIn(P(_)) ==
    Cardinality({p \in AllPos : P(aligned_spikes[p[1]][p[2]])})

RECURSIVE SumSeq(_)
SumSeq(q) == IF q = <<>> THEN 0 ELSE Head(q) + SumSeq(Tail(q))

InRange(v) == t_start <= v /\ v < t_end

\* C5 as stated: with at least one trial, every bin's rate is
\* count / (n_trials * bin_width), n_trials the number of trials aggregated.
C5_Original ==
    (HistDone /\ err = "none" /\ Len(aligned_spikes) > 0) =>
        /\ Len(firing_rate) = Len(counts)
        /\ \A b \in 1..Len(firing_rate) :
               /\ firing_rate[b].den # 0
               /\ firing_rate[b].num * (Len(aligned_spikes) * bin_size)
                      = counts[b] * firing_rate[b].den

\* C6 as stated: the edges are range_start + k * bin_width, there are
\* floor((range_end - range_start) / bin_width) bins, and the last edge is at
\* or before range_end.
C6_Original ==
    (HistDone /\ err = "none" /\ fn \in {"create_psth", "psth05"}) =>
        /\ Len(counts) = (t_end - t_start) \div bin_size
        /\ Len(bins) = Len(counts) + 1
        /\ \A k \in 1..Len(bins) : bins[k] = t_start + (k - 1) * bin_size
        /\ bins[Len(bins)] <= t_end

\* C7 as stated: a relative time is counted only if it lies in
\* [range_start, range_end), in the one bin [edge b, edge b+1) that holds it;
\* a value on the last edge is not counted.
C7_Original ==
    (HistDone /\ err = "none" /\ fn \in {"create_psth", "psth06"}) =>
        \A b \in 1..Len(counts) :
            counts[b] = CountIn(LAMBDA v : /\ InRange(v)
                                           /\ bins[b] <= v
                                           /\ v < bins[b + 1])

\* C7 (amended): with edges e_0 < e_1 < ... < e_n as the code builds them
\* (np.arange(t_start, t_end, bin_size) in create_psth,
\* np.arange(-pre_stim, post_stim + bin_width, bin_width) in 06), a relative
\* time v is counted exactly when e_0 <= v <= e_n, and then in exactly one
\* bin: bin b for e_b <= v < e_b+1, and the last bin also for v = e_n.  A
\* value equal to the last edge is counted; every other value is ignored
\* without error, among them the values of create_psth's range that lie
\* above e_n.
C7_Counting ==
    (HistDone /\ err = "none" /\ fn \in {"create_psth", "psth06"}) =>
        /\ Len(counts) = Len(bins) - 1
        /\ \A k \in 1..(Len(bins) - 1) : bins[k] < bins[k + 1]
        /\ \A b \in 1..Len(counts) :
               counts[b] = CountIn(LAMBDA v :
                               /\ bins[b] <= v
                               /\ IF b = Len(counts)
                                  THEN v <= bins[b + 1]
                                  ELSE v < bins[b + 1])

\* create_psth counts a value on the last edge and ignores a value of the
\* range above it.
C7_Witness ==
    /\ HistDone /\ err = "none" /\ fn = "create_psth"
    /\ Len(bins) >= 2
    /\ CountIn(LAMBDA v : v = bins[Len(bins)]) > 0
    /\ counts[Len(counts)] > 0
    /\ CountIn(LAMBDA v : InRange(v) /\ v > bins[Len(bins)]) > 0

C9_Original ==
    (HistDone /\ fn = "create_psth" /\ Len(aligned_spikes) = 0
              /\ t_end > t_start + bin_size) =>
        /\ err = "InvalidArgument"
        /\ \A b \in 1..Len(firing_rate) : firing_rate[b].den # 0


\* C11 as stated, with any exception taken for the InvalidArgument failure:
\* a create_psth call with bin_size <= 0 ends in a failure, not in a return.
C11_Original ==
    (HistEnded /\ fn = "create_psth" /\ bin_size <= 0) => err # "none"

RasterDone == pc = "done" /\ fn = "get_raster_data"

\* The 0-based trial indices that occur in the flattened result.
TrialsPresent == {trial_indices[p] : p \in 1..Len(trial_indices)}

\* Window i (1-based) of get_raster_data selects an event.
RasterSelects(i) ==
    \E k \in 1..Len(events) :
        /\ events[k] >= windows[i].start
        /\ events[k] < windows[i].start + post

\* C13 as stated, for all three functions: the result has one trial per
\* window, empty where the window selects no event; in the flattened result
\* of get_raster_data every window is a trial that is present.
C13_Original ==
    /\ AlignDone =>
           /\ Len(aligned_spikes) = Len(windows)
           /\ events = <<>> => \A i \in 1..Len(windows) : aligned_spikes[i] = <<>>
    /\ RasterDone =>
           \A i \in 1..Len(windows) : (i - 1) \in TrialsPresent

\* C13 (amended): get_aligned_spikes and create_spike_raster raise no error
\* on empty inputs and keep them: no window gives an empty list, no event
\* gives one empty entry per window, and a window that retains no event has
\* an empty entry at its position.  get_raster_data raises no error either
\* but returns two flat lists of equal length, one element per selected
\* spike: with no window or no event both are empty, and a window that
\* selects no event is skipped - its index does not occur in trial_indices -
\* while every other window keeps its own 0-based index, in window order.
C13_EmptyPreserved ==
    /\ AlignDone =>
           /\ err = "none"
           /\ Len(aligned_spikes) = Len(windows)
           /\ windows = <<>> => aligned_spikes = <<>>
           /\ \A i \in 1..Len(windows) :
                  (events = <<>> \/
                   ~\E k \in 1..Len(events) :
                        events[k] >= RetLo(i) /\ events[k] <= RetHi(i))
                      => aligned_spikes[i] = <<>>
    /\ RasterDone =>
           /\ err = "none"
           /\ Len(trial_indices) = Len(spike_times_rel)
           /\ (windows = <<>> \/ events = <<>>) => trial_indices = <<>>
           /\ \A i \in 1..Len(windows) :
                  (i - 1) \in TrialsPresent <=> RasterSelects(i)
           /\ TrialsPresent \subseteq 0..(Len(windows) - 1)
           /\ \A p \in 1..(Len(trial_indices) - 1) :
                  trial_indices[p] <= trial_indices[p + 1]

\* get_raster_data skips a first window without a spike and gives the
\* spike of the second window the index 1.
C13_Witness ==
    /\ RasterDone
    /\ Len(windows) = 2
    /\ ~RasterSelects(1)
    /\ RasterSelects(2)
    /\ trial_indices = <<1>>

\* Event k is in entry i of the result, as a time relative to the start of
\* window i.
AppearsIn(k, i) ==
    \E j \in 1..Len(aligned_spikes[i]) :
        aligned_spikes[i][j] = events[k] - windows[i].start

\* What C14 says of windows i and j whose retention intervals are
\* [lo(i), hi(i)] and [lo(j), hi(j)].
SharedEvents(i, j, lo(_), hi(_)) ==
    LET both == {k \in 1..Len(events) :
                    /\ lo(i) <= events[k] /\ events[k] <= hi(i)
                    /\ lo(j) <= events[k] /\ events[k] <= hi(j)}
        disjoint == ~\E t \in (lo(i))..(hi(i)) : lo(j) <= t /\ t <= hi(j)
    IN  /\ disjoint =>
               ~\E k \in 1..Len(events) : AppearsIn(k, i) /\ AppearsIn(k, j)
        /\ \A k \in both : AppearsIn(k, i) /\ AppearsIn(k, j)

\* C14 as stated, with the retention interval [start - pre, start + post]
\* for both functions and margins that are not negative.
C14_Original ==
    (AlignDone /\ pre >= 0 /\ post >= 0) =>
        \A i, j \in 1..Len(windows) :
            i # j => SharedEvents(i, j,
                                  LAMBDA w : windows[w].start - pre,
                                  LAMBDA w : windows[w].start + post)

\* C14 (amended): with the interval each function retains -
\* [start - pre, start + post] in get_aligned_spikes,
\* [start - pre_time, stop + post_time] in create_spike_raster - two windows
\* with disjoint intervals share no event, and an event in both intervals
\* is in both entries, in each relative to that window's start.
C14_Overlap ==
    AlignDone =>
        \A i, j \in 1..Len(windows) :
            i # j => SharedEvents(i, j, RetLo, RetHi)

\* One event lies in the intervals of two windows with different starts and
\* is in both entries, under two relative times.
C14_Witness ==
    /\ AlignDone
    /\ Len(windows) = 2
    /\ windows[1].start # windows[2].start
    /\ \E k \in 1..Len(events) :
           /\ RetLo(1) <= events[k] /\ events[k] <= RetHi(1)
           /\ RetLo(2) <= events[k] /\ events[k] <= RetHi(2)
           /\ AppearsIn(k, 1) /\ AppearsIn(k, 2)
           /\ events[k] - windows[1].start # events[k] - windows[2].start

\* C15: with events sorted non-decreasing, every entry that
\* get_aligned_spikes or create_spike_raster returns is sorted
\* non-decreasing, and two of its values stand in the order in which the
\* events they come from stand in events.
C15_SortedTrials ==
    (AlignDone /\ IsSorted(events)) =>
        \A i \in 1..Len(aligned_spikes) :
            /\ IsSorted(aligned_spikes[i])
            /\ \A j1, j2 \in 1..Len(aligned_spikes[i]) :
                   j1 < j2 =>
                       \E k1, k2 \in 1..Len(events) :
                           /\ k1 < k2
                           /\ events[k1] =
                                  aligned_spikes[i][j1] + windows[i].start
                           /\ events[k2] =
                                  aligned_spikes[i][j2] + windows[i].start

\* An entry holds two different relative times, the earlier event first.
C15_Witness ==
    /\ AlignDone /\ IsSorted(events)
    /\ \E i \in 1..Len(aligned_spikes) :
           /\ Len(aligned_spikes[i]) = 2
           /\ aligned_spikes[i][1] < aligned_spikes[i][2]
           /\ events[1] < events[2]

(***************************************************************************)
(* Rates.                                                                  *)
(***************************************************************************)
\* C18: a histogram over at least one trial, with a positive bin width, that
\* returns, returns rates that are all >= 0: no count is negative and the
\* divisor (bin width times number of trials) is positive.
C18_NonNegative ==
    (HistDone /\ err = "none" /\ Len(aligned_spikes) >= 1) =>
        \A b \in 1..Len(firing_rate) :
            /\ firing_rate[b].num >= 0
            /\ firing_rate[b].den > 0

\* create_psth returns a rate above zero next to a rate of zero.
C18_Witness ==
    /\ HistDone /\ err = "none" /\ fn = "create_psth"
    /\ Len(aligned_spikes) >= 1
    /\ \E b, c \in 1..Len(firing_rate) :
           /\ firing_rate[b].num > 0 /\ firing_rate[b].den > 0
           /\ firing_rate[c].num = 0 /\ firing_rate[c].den > 0

\* Every trial handed to the histogram is empty.
AllEmpty == \A i \in 1..Len(aligned_spikes) : aligned_spikes[i] = <<>>

Ended(p) == frame[p].pc \in {"returned", "raised"}

\* C16: no step of get_aligned_spikes or create_psth changes an argument:
\* events, windows and the margins, and for create_psth the trials handed
\* in, the bin width and the range, hold after every step what they held
\* before it.
C16_InputsUnchanged ==
    [][/\ events' = events
       /\ windows' = windows
       /\ pre' = pre /\ post' = post
       /\ op = "create_psth" =>
              /\ aligned_spikes' = aligned_spikes
              /\ bin_size' = bin_size
              /\ t_start' = t_start /\ t_end' = t_end]_vars

\* get_aligned_spikes has returned a relative time that differs from the
\* event time it was taken from.
C16_Witness ==
    /\ op = "get_aligned_spikes"
    /\ frame[1].pc = "returned"
    /\ \E i \in 1..Len(frame[1].ret) :
           /\ Len(frame[1].ret[i]) > 0
           /\ windows[i].start > 0
           /\ events[1] # frame[1].ret[i][1]

\* C17: two calls of get_aligned_spikes with the same arguments return the
\* same list, whatever is called between them.
C17_SameOutput ==
    (op = "get_aligned_spikes" /\ \A p \in Invocations : Ended(p)) =>
        /\ \A p \in Invocations : frame[p].pc = "returned"
        /\ frame[1].ret = frame[2].ret

\* Both calls have returned a list that holds a relative time, and another
\* call was made.
C17_Witness ==
    /\ op = "get_aligned_spikes"
    /\ \A p \in Invocations : frame[p].pc = "returned"
    /\ \E i \in 1..Len(frame[2].ret) : Len(frame[2].ret[i]) > 0
    /\ pc = "done"

\* What invocation p ended with is what a call running alone ends with.
AsAlone(p) ==
    IF op = "get_aligned_spikes"
    THEN LET r == get_aligned_spikes(events, Starts(windows), pre, post)
         IN  /\ frame[p].pc = "returned"
             /\ frame[p].err = r.err
             /\ frame[p].ret = r.ret
    ELSE \E r \in create_psth_outcomes(aligned_spikes, bin_size, t_start, t_end) :
             /\ frame[p].err = r.err
             /\ IF r.err = "none"
                THEN /\ frame[p].pc = "returned"
                     /\ frame[p].ret = [bin_centers |-> r.bin_centers,
                                        firing_rate |-> r.firing_rate]
                ELSE /\ frame[p].pc = "raised"
                     /\ frame[p].ret = <<>>

\* C20: of two invocations of get_aligned_spikes, or of create_psth, on the
\* same arguments, with their steps interleaved in any way, each ends as a
\* call running alone ends: with the same returned value, or by raising the
\* same exception.
C20_Isolation ==
    \A p \in Invocations : Ended(p) => AsAlone(p)

\* One invocation of create_psth has returned a rate above zero while the
\* other is half-way through its loop.
C20_Witness ==
    /\ op = "create_psth"
    /\ frame[1].pc = "returned"
    /\ \E b \in 1..Len(frame[1].ret.firing_rate) :
           frame[1].ret.firing_rate[b].num > 0
    /\ frame[2].pc = "loop" /\ frame[2].i = 1 /\ LoopLen = 2

(***************************************************************************)
(* The per-unit slices of spike_times (05_barcode_visualization.py,        *)
(* 06_compare_barcodes.py).                                                *)
(*                                                                         *)
(* The scripts read the two HDF5 datasets of the ragged spike_times        *)
(* column: the flat array spike_times and its index spike_times_index.     *)
(* The file format keeps in the index, for every row, the offset at which  *)
(* the row's values END: row u holds the values at the positions from      *)
(* index[u-1] (0 for the first row) up to index[u] - 1.                    *)
(***************************************************************************)
MaxUnits == 4      \* at most this many rows in the units table
MaxPerUnit == 2    \* at most this many spikes of one unit

\* Everything of the model outside the scripts is at rest.
LibIdle ==
    /\ events = <<>> /\ windows = <<>> /\ pre = 0 /\ post = 0
    /\ fn = "none" /\ err = "none"
    /\ aligned_spikes = <<>>
    /\ trial_indices = <<>> /\ spike_times_rel = <<>>
    /\ HistIdle
    /\ op = "none" /\ NoCalls

\* The index the file holds for units with the spike counts cnts.
RECURSIVE VectorIndex(_)
VectorIndex(cnts) ==
    IF cnts = <<>>
    THEN <<>>
    ELSE LET front == VectorIndex(SubSeq(cnts, 1, Len(cnts) - 1))
         IN  Append(front,
                    (IF front = <<>> THEN 0 ELSE front[Len(front)])
                        + cnts[Len(cnts)])

\* The loop looks at no more than this many units.
unit_limit == 200

num_units == Len(spike_times_index)

InitSlices ==
    /\ \E cnts \in SeqsUpTo(0..MaxPerUnit, MaxUnits) :
           /\ spike_times_index = VectorIndex(cnts)
           /\ num_spikes = (IF cnts = <<>> THEN 0
                            ELSE VectorIndex(cnts)[Len(cnts)])
    /\ unit_idx = 0
    /\ unit_slices = <<>>
    /\ pc = "loop"
    /\ LibIdle
    /\ LfpIdle /\ UnitsIdle /\ RespIdle /\ RasterIdle /\ IntervalIdle
    /\ SelectIdle

\* One pass of the loop: index_start, index_end and the slice
\* spike_times[index_start:index_end] of unit unit_idx (0-based).
SliceUnit ==
    /\ pc = "loop"
    /\ unit_idx < Min(unit_limit, num_units)
    /\ LET index_start == spike_times_index[unit_idx + 1]
           index_end == IF unit_idx < num_units - 1
                        THEN spike_times_index[unit_idx + 2]
                        ELSE num_spikes
       IN  unit_slices' = Append(unit_slices,
                                 [index_start |-> index_start,
                                  index_end |-> index_end])
    /\ unit_idx' = unit_idx + 1
    /\ UNCHANGED <<pc, spike_times_index, num_spikes>>
    /\ UNCHANGED <<libVars, lfpVars, unitVars, respVars, rasterVars,
                   intervalVars, selectVars>>

SlicesEnd ==
    /\ pc = "loop"
    /\ unit_idx >= Min(unit_limit, num_units)
    /\ pc' = "done"
    /\ UNCHANGED sliceVars
    /\ UNCHANGED <<libVars, lfpVars, unitVars, respVars, rasterVars,
                   intervalVars, selectVars>>

NextSlices == SliceUnit \/ SlicesEnd

SpecSlices == InitSlices /\ [][NextSlices]_vars

\* The positions of spike_times a slice takes.
SlicePositions(sl) == {p \in 0..(num_spikes - 1) :
                           sl.index_start <= p /\ p < sl.index_end}

\* The positions of spike_times the index gives to the 0-based unit u.
UnitPositions(u) ==
    {p \in 0..(num_spikes - 1) :
        /\ (IF u = 0 THEN 0 ELSE spike_times_index[u]) <= p
        /\ p < spike_times_index[u + 1]}

\* C21 as stated: when the loop has visited every unit, the slices are
\* pairwise disjoint, every position of spike_times is in one of them, and
\* the slice of unit u holds the positions the index gives to unit u.
C21_Original ==
    (pc = "done" /\ Len(unit_slices) = num_units) =>
        /\ \A u, v \in 1..num_units :
               u # v => SlicePositions(unit_slices[u])
                            \cap SlicePositions(unit_slices[v]) = {}
        /\ \A p \in 0..(num_spikes - 1) :
               \E u \in 1..num_units : p \in SlicePositions(unit_slices[u])
        /\ \A u \in 1..num_units :
               SlicePositions(unit_slices[u]) = UnitPositions(u - 1)

(***************************************************************************)
(* The LFP subset of the gemini-2.5-flash notebook.                        *)
(***************************************************************************)
MaxSamples == 4    \* lfp_data has at most this many samples
MaxRequested == 4  \* int(duration * sampling_rate) is at most this

\* After num_samples_to_plot = int(duration * sampling_rate).
InitLfp ==
    /\ lfp_len \in 0..MaxSamples
    /\ search_result \in 0..lfp_len
    /\ requested \in 0..MaxRequested
    /\ num_samples_to_plot = requested
    /\ start_index = 0 /\ end_index = 0
    /\ pc = "find"
    /\ LibIdle
    /\ SlicesIdle /\ UnitsIdle /\ RespIdle /\ RasterIdle /\ IntervalIdle
    /\ SelectIdle

lfpOthers == <<libVars, sliceVars, unitVars, respVars, rasterVars,
               intervalVars, selectVars>>

\* start_index = np.searchsorted(...); end_index = start_index + n
FindIndices ==
    /\ pc = "find"
    /\ start_index' = search_result
    /\ end_index' = search_result + num_samples_to_plot
    /\ pc' = "bounds"
    /\ UNCHANGED <<lfp_len, search_result, requested, num_samples_to_plot>>
    /\ UNCHANGED lfpOthers

\* The mutant clips end_index and keeps the sample count.
EnsureBounds_keep ==
    /\ pc = "bounds"
    /\ IF end_index > lfp_len
       THEN end_index' = lfp_len
       ELSE UNCHANGED end_index
    /\ pc' = "fallback"
    /\ UNCHANGED <<lfp_len, search_result, requested, start_index,
                   num_samples_to_plot>>
    /\ UNCHANGED lfpOthers

\* if end_index > lfp_data.shape[0]: ...
EnsureBounds ==
    /\ pc = "bounds"
    /\ IF end_index > lfp_len
       THEN /\ end_index' = lfp_len
            /\ num_samples_to_plot' = lfp_len - start_index
       ELSE UNCHANGED <<end_index, num_samples_to_plot>>
    /\ pc' = "fallback"
    /\ UNCHANGED <<lfp_len, search_result, requested, start_index>>
    /\ UNCHANGED lfpOthers

\* if start_index >= end_index: ...
Fallback ==
    /\ pc = "fallback"
    /\ IF start_index >= end_index
       THEN /\ start_index' = 0
            /\ end_index' = Min(num_samples_to_plot, lfp_len)
            /\ num_samples_to_plot' = Min(num_samples_to_plot, lfp_len) - 0
       ELSE UNCHANGED <<start_index, end_index, num_samples_to_plot>>
    /\ pc' = "done"
    /\ UNCHANGED <<lfp_len, search_result, requested>>
    /\ UNCHANGED lfpOthers

NextLfp == FindIndices \/ EnsureBounds \/ Fallback

SpecLfp == InitLfp /\ [][NextLfp]_vars

\* C22 as stated: a step that takes the fallback (start_index >= end_index)
\* sets start_index to 0 and selects min(requested count, number of
\* samples) samples, at least one when there is a sample and the requested
\* count is positive.
C22_Original ==
    [][(pc = "fallback" /\ start_index >= end_index) =>
           /\ start_index' = 0
           /\ num_samples_to_plot' = Min(requested, lfp_len)
           /\ end_index' = Min(requested, lfp_len)
           /\ (lfp_len > 0 /\ requested > 0) => num_samples_to_plot' >= 1]_vars

\* C23: when the selection is over, 0 <= start_index <= end_index <= N and
\* num_samples_to_plot = end_index - start_index, for every length N, every
\* searchsorted result in 0..N and every requested count >= 0.
C23_InBounds ==
    pc = "done" =>
        /\ 0 <= start_index
        /\ start_index <= end_index
        /\ end_index <= lfp_len
        /\ num_samples_to_plot = end_index - start_index

\* The request ran past the end of the data and was cut to the samples
\* that are left.
C23_Witness ==
    /\ pc = "done"
    /\ search_result + requested > lfp_len
    /\ start_index = search_result
    /\ end_index = lfp_len
    /\ num_samples_to_plot > 0
    /\ num_samples_to_plot < requested

(***************************************************************************)
(* find_responsive_units (claude-3.7-sonnet-prompt-e-2 notebook)           *)
(***************************************************************************)
MaxRate == 2       \* firing rates and thresholds range over 0..MaxRate

\* The mutant leaves the loop one selected unit later.
RECURSIVE find_responsive_units_loop_late(_, _, _, _, _)
find_responsive_units_loop_late(acc, i, rates, min_rate, max_u) ==
    IF i >= Len(rates)
    THEN acc
    ELSE IF rates[i + 1] >= min_rate
         THEN LET next == [unit_ids |-> Append(acc.unit_ids, i),
                           firing_rates |->
                               Append(acc.firing_rates, rates[i + 1])]
              IN  IF Len(next.unit_ids) > max_u
                  THEN next
                  ELSE find_responsive_units_loop_late(next, i + 1, rates,
                                                       min_rate, max_u)
         ELSE find_responsive_units_loop_late(acc, i + 1, rates, min_rate,
                                              max_u)

\* The loop over enumerate(nwb.units.firing_rate[:]) from the 0-based row i
\* on; the break is looked at only after a unit was appended.
RECURSIVE find_responsive_units_loop(_, _, _, _, _)
find_responsive_units_loop(acc, i, rates, min_rate, max_u) ==
    IF i >= Len(rates)
    THEN acc
    ELSE IF rates[i + 1] >= min_rate
         THEN LET next == [unit_ids |-> Append(acc.unit_ids, i),
                           firing_rates |->
                               Append(acc.firing_rates, rates[i + 1])]
              IN  IF Len(next.unit_ids) >= max_u
                  THEN next
                  ELSE find_responsive_units_loop(next, i + 1, rates,
                                                  min_rate, max_u)
         ELSE find_responsive_units_loop(acc, i + 1, rates, min_rate, max_u)

find_responsive_units(rates, min_rate, max_u) ==
    find_responsive_units_loop([unit_ids |-> <<>>, firing_rates |-> <<>>],
                               0, rates, min_rate, max_u)

InitUnits ==
    /\ units_firing_rate \in SeqsUpTo(0..MaxRate, MaxUnits)
    /\ min_firing_rate \in 0..MaxRate
    /\ max_units \in 0..MaxUnits
    /\ unit_ids = <<>> /\ firing_rates = <<>>
    /\ pc = "ready"
    /\ LibIdle
    /\ SlicesIdle /\ LfpIdle /\ RespIdle /\ RasterIdle /\ IntervalIdle
    /\ SelectIdle

CallFindResponsiveUnits ==
    /\ pc = "ready"
    /\ LET r == find_responsive_units(units_firing_rate, min_firing_rate,
                                      max_units)
       IN  /\ unit_ids' = r.unit_ids
           /\ firing_rates' = r.firing_rates
    /\ pc' = "done"
    /\ UNCHANGED <<units_firing_rate, min_firing_rate, max_units>>
    /\ UNCHANGED <<libVars, sliceVars, lfpVars, respVars, rasterVars,
                   intervalVars, selectVars>>

NextUnits == CallFindResponsiveUnits

SpecUnits == InitUnits /\ [][NextUnits]_vars

\* The 0-based rows whose rate meets the threshold.
Qualifying == {i \in 0..(Len(units_firing_rate) - 1) :
                   units_firing_rate[i + 1] >= min_firing_rate}

\* What C24 says of a result that may hold up to cap units.
FirstQualifying(cap) ==
    /\ Len(unit_ids) = Len(firing_rates)
    /\ Len(unit_ids) <= cap
    /\ \A k \in 1..(Len(unit_ids) - 1) : unit_ids[k] < unit_ids[k + 1]
    /\ \A k \in 1..Len(unit_ids) :
           /\ unit_ids[k] \in Qualifying
           /\ firing_rates[k] = units_firing_rate[unit_ids[k] + 1]
    /\ \A i \in Qualifying :
           \/ \E k \in 1..Len(unit_ids) : unit_ids[k] = i
           \/ /\ Len(unit_ids) >= cap
              /\ i > unit_ids[Len(unit_ids)]

\* C24 as stated: the result is at most max_units long.
C24_Original ==
    pc = "done" => FirstQualifying(max_units)

\* C24 (amended): the two lists are equally long, hold strictly increasing
\* row indices with rate >= min_firing_rate, each paired with its rate, and
\* are the first qualifying rows in table order, as many as there are up to
\* max_units - but never fewer than one when a row qualifies: the loop
\* looks at max_units only after it has appended, so with max_units <= 0
\* the first qualifying row is returned.
C24_FirstUnits ==
    pc = "done" => FirstQualifying(IF max_units >= 1 THEN max_units ELSE 1)

\* Two rows are returned, a row below the threshold between them is left
\* out and a third qualifying row is cut off by max_units.
C24_Witness ==
    /\ pc = "done"
    /\ max_units = 2
    /\ unit_ids = <<0, 2>>
    /\ firing_rates = <<units_firing_rate[1], units_firing_rate[3]>>
    /\ Qualifying = {0, 2, 3}

(***************************************************************************)
(* compute_responsiveness (06_compare_barcodes.py)                         *)
(***************************************************************************)
\* The mutant closes the pre-stimulus mask at 0.
pre_mask_sum_closed(spikes, pre_stim) ==
    Cardinality({k \in 1..Len(spikes) : spikes[k] >= -pre_stim /\ spikes[k] <= 0})

\* np.sum((spikes >= -pre_stim) & (spikes < 0))
pre_mask_sum(spikes, pre_stim) ==
    Cardinality({k \in 1..Len(spikes) : spikes[k] >= -pre_stim /\ spikes[k] < 0})

\* np.sum((spikes >= 0) & (spikes < stim_duration))
stim_mask_sum(spikes, duration) ==
    Cardinality({k \in 1..Len(spikes) : spikes[k] >= 0 /\ spikes[k] < duration})

RECURSIVE compute_responsiveness_loop(_, _, _, _)
compute_responsiveness_loop(acc, trials, pre_stim, duration) ==
    IF trials = <<>>
    THEN acc
    ELSE compute_responsiveness_loop(
             [pre_count |-> acc.pre_count + pre_mask_sum(Head(trials), pre_stim),
              stim_count |-> acc.stim_count
                                 + stim_mask_sum(Head(trials), duration)],
             Tail(trials), pre_stim, duration)

\* A fraction is above zero; a positive count over 0 is inf.
Positive(q) == (q.den = 0 /\ q.num > 0) \/ q.num * q.den > 0

\* The counts are Python ints while no trial was added and numpy integers
\* after: 0 / 0 between Python ints raises ZeroDivisionError, a numpy
\* integer over 0 is nan or inf.  0.1 is the fraction 1/10.
compute_responsiveness(trials, pre_stim, duration) ==
    LET c == compute_responsiveness_loop([pre_count |-> 0, stim_count |-> 0],
                                         trials, pre_stim, duration)
        p_rate == IF c.pre_count > 0
                  THEN [num |-> c.pre_count, den |-> pre_stim]
                  ELSE [num |-> 1, den |-> 10]
        s_rate == [num |-> c.stim_count, den |-> duration]
        r == IF Positive(p_rate)
             THEN [num |-> s_rate.num * p_rate.den,
                   den |-> s_rate.den * p_rate.num]
             ELSE s_rate
    IN  IF trials = <<>> /\ duration = 0
        THEN [err |-> "ZeroDivisionError", pre_count |-> c.pre_count,
              stim_count |-> c.stim_count, pre_rate |-> p_rate,
              stim_rate |-> <<>>, ratio |-> <<>>]
        ELSE [err |-> "none", pre_count |-> c.pre_count,
              stim_count |-> c.stim_count, pre_rate |-> p_rate,
              stim_rate |-> s_rate, ratio |-> r]

InitResp ==
    /\ aligned_spikes \in TrialLists
    /\ pre \in Margins
    /\ stim_duration \in 0..MaxBin
    /\ pre_count = 0 /\ stim_count = 0
    /\ pre_rate = <<>> /\ stim_rate = <<>> /\ ratio = <<>>
    /\ pc = "ready" /\ fn = "none" /\ err = "none"
    /\ events = <<>> /\ windows = <<>> /\ post = 0
    /\ trial_indices = <<>> /\ spike_times_rel = <<>>
    /\ HistIdle
    /\ op = "none" /\ NoCalls
    /\ SlicesIdle /\ LfpIdle /\ UnitsIdle /\ RasterIdle /\ IntervalIdle
    /\ SelectIdle

CallComputeResponsiveness ==
    /\ pc = "ready"
    /\ LET r == compute_responsiveness(aligned_spikes, pre, stim_duration)
       IN  /\ err' = r.err
           /\ pre_count' = r.pre_count
           /\ stim_count' = r.stim_count
           /\ pre_rate' = r.pre_rate
           /\ stim_rate' = r.stim_rate
           /\ ratio' = r.ratio
    /\ pc' = "done" /\ fn' = "compute_responsiveness"
    /\ UNCHANGED <<events, windows, pre, post, aligned_spikes,
                   trial_indices, spike_times_rel>>
    /\ UNCHANGED <<histVars, callVars, stim_duration>>
    /\ UNCHANGED <<sliceVars, lfpVars, unitVars, rasterVars, intervalVars,
                   selectVars>>

NextResp == CallComputeResponsiveness

SpecResp == InitResp /\ [][NextResp]_vars

\* C25: for pre_stim >= 0 and stim_duration > 0 compute_responsiveness
\* raises nothing and no divisor is zero; pre_count is the number of
\* relative times in [-pre_stim, 0), stim_count the number in
\* [0, stim_duration), so that no spike is counted twice; without a counted
\* pre-stimulus spike (always so for pre_stim = 0) pre_rate is 0.1, else
\* pre_count / pre_stim; the ratio is stim_rate / pre_rate.
C25_Responsiveness ==
    (pc = "done" /\ pre >= 0 /\ stim_duration > 0) =>
        /\ err = "none"
        /\ pre_count = CountIn(LAMBDA v : -pre <= v /\ v < 0)
        /\ stim_count = CountIn(LAMBDA v : 0 <= v /\ v < stim_duration)
        /\ pre_count + stim_count =
               CountIn(LAMBDA v : -pre <= v /\ v < stim_duration)
        /\ pre_rate = IF pre_count = 0
                      THEN [num |-> 1, den |-> 10]
                      ELSE [num |-> pre_count, den |-> pre]
        /\ pre = 0 => pre_count = 0
        /\ pre_rate.den > 0 /\ pre_rate.num > 0
        /\ stim_rate = [num |-> stim_count, den |-> stim_duration]
        /\ ratio.den > 0
        /\ ratio.num * (stim_rate.den * pre_rate.num)
               = (stim_rate.num * pre_rate.den) * ratio.den

\* With pre_stim = 0 a spike at the stimulus onset is counted for the
\* stimulus only, and the substitute pre_rate is used.
C25_Witness ==
    /\ pc = "done" /\ fn = "compute_responsiveness"
    /\ pre = 0 /\ stim_duration > 0
    /\ CountIn(LAMBDA v : v = 0) > 0
    /\ stim_count > 0
    /\ pre_count = 0
    /\ pre_rate = [num |-> 1, den |-> 10]
    /\ ratio.num > 0

(***************************************************************************)
(* create_raster_plot (claude-3.7-sonnet-prompt-g-2 notebook.py and        *)
(* explore_barcode_patterns.py)                                            *)
(***************************************************************************)
\* The mutant plots every trial.
trials_to_plot_all(limit, trial_starts) == Len(trial_starts)

\* trials_to_plot = min(max_trials, len(trial_starts))
trials_to_plot(limit, trial_starts) == Min(limit, Len(trial_starts))

\* for i in range(trials_to_plot): i is the 0-based trial, acc the two
\* lists built so far.  range() of a number below 1 is empty.
RECURSIVE create_raster_plot_loop(_, _, _, _, _, _)
create_raster_plot_loop(acc, i, n, spike_times, trial_starts, window_size) ==
    IF i >= n
    THEN acc
    ELSE LET start_time == trial_starts[i + 1]
             end_time == start_time + window_size
             these_spikes == MaskHalfOpen(spike_times, start_time, end_time)
             rel_times == Minus(these_spikes, start_time)
             next == IF Len(these_spikes) > 0
                     THEN [trial_indices |->
                               acc.trial_indices
                                   \o [k \in 1..Len(rel_times) |-> i],
                           spike_times_rel |->
                               acc.spike_times_rel \o rel_times]
                     ELSE acc
         IN  create_raster_plot_loop(next, i + 1, n, spike_times,
                                     trial_starts, window_size)

create_raster_plot(spike_times, trial_starts, window_size, limit) ==
    create_raster_plot_loop([trial_indices |-> <<>>, spike_times_rel |-> <<>>],
                            0, trials_to_plot(limit, trial_starts),
                            spike_times, trial_starts, window_size)

\* max_trials offered to create_raster_plot.
TrialLimits == -1..(MaxWindows + 1)

InitRaster ==
    /\ events \in SortedSeqs(0..MaxTime, MaxEvents)
    /\ windows \in SeqsUpTo(WindowSet, MaxWindows)
    /\ post \in Margins \cup {2}
    /\ max_trials \in TrialLimits
    /\ pre = 0
    /\ pc = "ready" /\ fn = "none" /\ err = "none"
    /\ aligned_spikes = <<>>
    /\ trial_indices = <<>> /\ spike_times_rel = <<>>
    /\ HistIdle
    /\ op = "none" /\ NoCalls
    /\ SlicesIdle /\ LfpIdle /\ UnitsIdle /\ RespIdle /\ IntervalIdle
    /\ SelectIdle

\* The notebook's create_raster_plot.
CallCreateRasterPlot ==
    /\ pc = "ready"
    /\ LET r == create_raster_plot(events, Starts(windows), post, max_trials)
       IN  /\ trial_indices' = r.trial_indices
           /\ spike_times_rel' = r.spike_times_rel
    /\ pc' = "done" /\ fn' = "create_raster_plot"
    /\ UNCHANGED <<events, windows, pre, post, err, aligned_spikes>>
    /\ UNCHANGED <<histVars, callVars, scriptVars>>

\* The create_raster_plot of explore_barcode_patterns.py: the same loop.
CallCreateRasterPlotExplore ==
    /\ pc = "ready"
    /\ LET r == create_raster_plot(events, Starts(windows), post, max_trials)
       IN  /\ trial_indices' = r.trial_indices
           /\ spike_times_rel' = r.spike_times_rel
    /\ pc' = "done" /\ fn' = "create_raster_plot_explore"
    /\ UNCHANGED <<events, windows, pre, post, err, aligned_spikes>>
    /\ UNCHANGED <<histVars, callVars, scriptVars>>

NextRaster ==
    \/ CallGetRasterData
    \/ CallCreateRasterPlot
    \/ CallCreateRasterPlotExplore

SpecRaster == InitRaster /\ [][NextRaster]_vars

FlatDone ==
    /\ pc = "done"
    /\ fn \in {"get_raster_data", "create_raster_plot",
               "create_raster_plot_explore"}

\* The number of trials a builder processes: get_raster_data has no
\* max_trials and processes them all.
Processed ==
    IF fn = "get_raster_data"
    THEN Len(windows)
    ELSE IF max_trials < Len(windows)
         THEN (IF max_trials < 0 THEN 0 ELSE max_trials)
         ELSE Len(windows)

\* C26: the flattened raster builders build trial_indices and
\* spike_times_rel of equal length; entry k pairs a processed trial i with
\* a relative time in [0, window) of a spike in
\* [trial_starts[i], trial_starts[i] + window); trial indices are
\* non-decreasing; the entries of a processed trial are exactly the spikes
\* of its half-open window, once each, in the order of the spikes.
C26_Flattened ==
    FlatDone =>
        /\ Len(trial_indices) = Len(spike_times_rel)
        /\ \A k \in 1..Len(trial_indices) :
               /\ trial_indices[k] \in 0..(Processed - 1)
               /\ k <= Len(spike_times_rel)
               /\ spike_times_rel[k] >= 0
               /\ spike_times_rel[k] < post
               /\ \E e \in 1..Len(events) :
                      LET s == windows[trial_indices[k] + 1].start
                      IN  /\ events[e] = s + spike_times_rel[k]
                          /\ events[e] >= s /\ events[e] < s + post
        /\ IsSorted(trial_indices)
        /\ \A i \in 1..Processed :
               ExactSelection(TrialPart(i - 1), windows[i].start,
                              windows[i].start, windows[i].start + post,
                              FALSE)

\* create_raster_plot stops at max_trials: the second trial start has a
\* spike in its window and is not plotted, a spike at the end of the first
\* window is left out, and the first trial holds its spike.
C26_Witness ==
    /\ pc = "done" /\ fn = "create_raster_plot"
    /\ max_trials = 1 /\ Len(windows) = 2
    /\ post = 1
    /\ \E e \in 1..Len(events) : events[e] = windows[2].start
    /\ \E e \in 1..Len(events) : events[e] = windows[1].start + post
    /\ trial_indices = <<0>>
    /\ spike_times_rel = <<0>>

(***************************************************************************)
(* The interval raster script (gemini-2.5-pro-preview-prompt-g-2           *)
(* plot_spike_raster_revised.py)                                           *)
(***************************************************************************)
start_time == 50   \* seconds
end_time == 55
units_wanted == 3  \* num_units_to_plot before it is adjusted

\* What reading the spike times of a row of the units table gives: the read
\* raises, or gives the row's spike times.
RowTimes == {<<>>, <<49>>, <<50>>, <<55>>, <<49, 50>>}
RowReads ==
    {[raises |-> TRUE, times |-> <<>>]}
        \cup {[raises |-> FALSE, times |-> t] : t \in RowTimes}

\* The id columns: distinct ids, or one id on every row.
IdColumns ==
    UNION {{[r \in 1..n |-> 6 + r], [r \in 1..n |-> 7]} : n \in 0..MaxUnits}

\* num_units_to_plot after the adjustment to the number of units.
interval_units_to_plot == Min(units_wanted, Len(all_unit_ids))

\* unit_ids_to_plot = all_unit_ids[:num_units_to_plot]
unit_ids_to_plot == SubSeq(all_unit_ids, 1, interval_units_to_plot)

\* np.where(all_unit_ids == unit_id)[0][0], as a 1-based row.
first_row(unit_id) ==
    CHOOSE r \in 1..Len(all_unit_ids) :
        /\ all_unit_ids[r] = unit_id
        /\ \A q \in 1..(r - 1) : all_unit_ids[q] # unit_id

\* The mutant leaves the loop at an error.
after_error_break(i, n) == n

\* continue in the except clause: the loop goes on with the next unit.
after_error(i, n) == i + 1

InitInterval ==
    /\ all_unit_ids \in IdColumns
    /\ unit_data \in [1..Len(all_unit_ids) -> RowReads]
    /\ plot_i = 0
    /\ spike_times_list = <<>> /\ valid_unit_indices = <<>>
    /\ plot_unit_ids = <<>>
    /\ pc = "loop"
    /\ LibIdle
    /\ SlicesIdle /\ LfpIdle /\ UnitsIdle /\ RespIdle /\ RasterIdle
    /\ SelectIdle

intervalOthers ==
    <<libVars, sliceVars, lfpVars, unitVars, respVars, rasterVars, selectVars>>

\* One pass of the loop over enumerate(unit_ids_to_plot); plot_i is i.
ProcessUnit ==
    /\ pc = "loop" /\ plot_i < interval_units_to_plot
    /\ LET unit_id == unit_ids_to_plot[plot_i + 1]
           read == unit_data[first_row(unit_id)]
           interval_spike_times ==
               MaskHalfOpen(read.times, start_time, end_time)
       IN  IF read.raises
           THEN /\ plot_i' = after_error(plot_i, interval_units_to_plot)
                /\ UNCHANGED <<spike_times_list, valid_unit_indices>>
           ELSE /\ plot_i' = plot_i + 1
                /\ IF Len(interval_spike_times) > 0
                   THEN /\ spike_times_list' =
                               Append(spike_times_list, interval_spike_times)
                        /\ valid_unit_indices' =
                               Append(valid_unit_indices, plot_i)
                   ELSE UNCHANGED <<spike_times_list, valid_unit_indices>>
    /\ UNCHANGED <<pc, all_unit_ids, unit_data, plot_unit_ids>>
    /\ UNCHANGED intervalOthers

\* plot_unit_ids = unit_ids_to_plot[valid_unit_indices]
SelectPlotIds ==
    /\ pc = "loop" /\ interval_units_to_plot > 0
    /\ plot_i >= interval_units_to_plot
    /\ plot_unit_ids' =
           [k \in 1..Len(valid_unit_indices) |->
               unit_ids_to_plot[valid_unit_indices[k] + 1]]
    /\ pc' = "done"
    /\ UNCHANGED <<all_unit_ids, unit_data, plot_i, spike_times_list,
                   valid_unit_indices>>
    /\ UNCHANGED intervalOthers

\* No units in the file: nothing is plotted.
NoUnitsFound ==
    /\ pc = "loop" /\ interval_units_to_plot = 0
    /\ pc' = "done"
    /\ UNCHANGED intervalVars
    /\ UNCHANGED intervalOthers

NextInterval == ProcessUnit \/ SelectPlotIds \/ NoUnitsFound

SpecInterval == InitInterval /\ [][NextInterval]_vars

\* The 0-based positions of unit_ids_to_plot whose read raises nothing and
\* holds a spike in [start_time, end_time).
KeptUnits ==
    {i \in 0..(interval_units_to_plot - 1) :
        LET read == unit_data[first_row(all_unit_ids[i + 1])]
        IN  /\ ~read.raises
            /\ \E s \in 1..Len(read.times) :
                   read.times[s] >= start_time /\ read.times[s] < end_time}

\* C27: the two lists grow together; when the loop is over every unit of
\* unit_ids_to_plot was visited, the units kept are exactly those whose
\* read raised nothing and that hold a spike in [start_time, end_time), in
\* order, and entry k of spike_times_list holds the spikes in the interval
\* of the unit whose id is entry k of plot_unit_ids.
C27_SkippedUnits ==
    /\ pc \in {"loop", "done"} => Len(spike_times_list) = Len(valid_unit_indices)
    /\ (pc = "done" /\ interval_units_to_plot > 0) =>
           /\ plot_i = interval_units_to_plot
           /\ {valid_unit_indices[k] : k \in 1..Len(valid_unit_indices)}
                  = KeptUnits
           /\ \A k \in 1..(Len(valid_unit_indices) - 1) :
                  valid_unit_indices[k] < valid_unit_indices[k + 1]
           /\ Len(plot_unit_ids) = Len(spike_times_list)
           /\ \A k \in 1..Len(plot_unit_ids) :
                  /\ plot_unit_ids[k] = all_unit_ids[valid_unit_indices[k] + 1]
                  /\ LET t == unit_data[first_row(plot_unit_ids[k])].times
                         idx == {s \in 1..Len(t) :
                                     t[s] >= start_time /\ t[s] < end_time}
                     IN  /\ Len(spike_times_list[k]) = Cardinality(idx)
                         /\ Len(spike_times_list[k]) > 0
                         /\ \A s \in idx :
                                spike_times_list[k]
                                    [Cardinality({m \in idx : m <= s})] = t[s]

\* The first unit raises, the second has its only spike at end_time, the
\* third has a spike in the interval and is the one plotted; a fourth unit
\* is not looked at.
C27_Witness ==
    /\ pc = "done"
    /\ all_unit_ids = <<7, 8, 9, 10>>
    /\ unit_data[1].raises
    /\ unit_data[2] = [raises |-> FALSE, times |-> <<55>>]
    /\ unit_data[3] = [raises |-> FALSE, times |-> <<49, 50>>]
    /\ valid_unit_indices = <<2>>
    /\ spike_times_list = << <<50>> >>
    /\ plot_unit_ids = <<9>>

(***************************************************************************)
(* The unit-selection loop of the spike raster script                      *)
(* (gemini-2.5-pro-preview-prompt-f-2 plot_spike_raster.py)                *)
(***************************************************************************)
try_limit == 20        \* min(20, len(units_df))
target_num_units == 5
enough_spikes == 10    \* len(unit_spike_times) > 10

\* len(units_df): no unit, fewer than try_limit, try_limit, more.
TableSizes == {0, 3, try_limit, try_limit + 1}

\* The numbers of spikes a row of the table can hold.
SpikeCounts == {0, enough_spikes, enough_spikes + 1}

max_units_to_try == Min(try_limit, units_len)

\* nwb.units.id[i]: the ids differ from the row numbers.
unit_id_of(i) == 100 + i

\* nwb.units.spike_times_index[i][:] of a row with c spikes; the times tell
\* the row.
spike_train(i, c) == [k \in 1..c |-> 1000 * i + k]

\* str() of an int >= 0: its decimal digits.
RECURSIVE str_int(_)
str_int(n) ==
    IF n < 10 THEN <<n>> ELSE Append(str_int(n \div 10), n % 10)

\* The mutant selects a unit with enough_spikes spikes too.
is_selected_at_least(unit_spike_times) == Len(unit_spike_times) >= enough_spikes

\* if len(unit_spike_times) > 10
is_selected(unit_spike_times) == Len(unit_spike_times) > enough_spikes

InitSelect ==
    /\ units_len \in TableSizes
    /\ try_i = 0
    /\ selected_spike_times = <<>> /\ selected_unit_ids = <<>>
    /\ num_units_to_plot = 0
    /\ traceback = "none"
    /\ pc = "loop"
    /\ LibIdle
    /\ SlicesIdle /\ LfpIdle /\ UnitsIdle /\ RespIdle /\ RasterIdle
    /\ IntervalIdle

selectOthers ==
    <<libVars, sliceVars, lfpVars, unitVars, respVars, rasterVars,
      intervalVars>>

\* The loop is at the try of row try_i.
InTry ==
    /\ pc = "loop"
    /\ try_i < max_units_to_try
    /\ num_units_to_plot < target_num_units

\* The try block runs to its end.  Each row is read once, so the number of
\* spikes it holds is chosen when it is read.
TryUnit ==
    /\ InTry
    /\ \E c \in SpikeCounts :
           LET unit_spike_times == spike_train(try_i, c)
               unit_id == unit_id_of(try_i)
           IN  IF is_selected(unit_spike_times)
               THEN /\ selected_spike_times' =
                           Append(selected_spike_times, unit_spike_times)
                    /\ selected_unit_ids' =
                           Append(selected_unit_ids, str_int(unit_id))
                    /\ num_units_to_plot' = num_units_to_plot + 1
               ELSE UNCHANGED <<selected_spike_times, selected_unit_ids,
                                num_units_to_plot>>
    /\ try_i' = try_i + 1
    /\ UNCHANGED <<pc, units_len, traceback>>
    /\ UNCHANGED selectOthers

\* except IndexError: continue
SkipIndexError ==
    /\ InTry
    /\ try_i' = try_i + 1
    /\ UNCHANGED <<pc, units_len, traceback, selected_spike_times,
                   selected_unit_ids, num_units_to_plot>>
    /\ UNCHANGED selectOthers

\* except Exception: the message is formatted, nwb.units.id[i] read for it
\* without an error, and the loop continues.
SkipException ==
    /\ InTry
    /\ try_i' = try_i + 1
    /\ UNCHANGED <<pc, units_len, traceback, selected_spike_times,
                   selected_unit_ids, num_units_to_plot>>
    /\ UNCHANGED selectOthers

\* except Exception: reading nwb.units.id[i] for the message raises, as it
\* does when that read is what failed in the try block.  An exception
\* raised in an except clause is not handled there: the script ends with a
\* traceback.
HandlerRaises ==
    /\ InTry
    /\ traceback' = "Exception"
    /\ pc' = "done"
    /\ UNCHANGED <<units_len, try_i, selected_spike_times,
                   selected_unit_ids, num_units_to_plot>>
    /\ UNCHANGED selectOthers

\* if num_units_to_plot >= target_num_units: break
BreakAtTarget ==
    /\ pc = "loop"
    /\ try_i < max_units_to_try
    /\ num_units_to_plot >= target_num_units
    /\ pc' = "done"
    /\ UNCHANGED selectVars
    /\ UNCHANGED selectOthers

\* range(max_units_to_try) is used up.
RangeExhausted ==
    /\ pc = "loop"
    /\ try_i >= max_units_to_try
    /\ pc' = "done"
    /\ UNCHANGED selectVars
    /\ UNCHANGED selectOthers

NextSelect ==
    \/ TryUnit
    \/ SkipIndexError
    \/ SkipException
    \/ HandlerRaises
    \/ BreakAtTarget
    \/ RangeExhausted

SpecSelect == InitSelect /\ [][NextSelect]_vars

\* C28: the loop examines only the first min(20, number of units) rows,
\* selects at most 5 units, each with more than 10 spikes, keeps the two
\* lists equal in length with entry k of each from the same row, and ends
\* only at the break or at the end of the range: an error while a unit is
\* processed does not end it.
C28_Original ==
    /\ try_i <= max_units_to_try
    /\ num_units_to_plot <= target_num_units
    /\ Len(selected_spike_times) = num_units_to_plot
    /\ Len(selected_unit_ids) = num_units_to_plot
    /\ \A k \in 1..Len(selected_spike_times) :
           /\ Len(selected_spike_times[k]) > enough_spikes
           /\ k <= Len(selected_unit_ids)
           /\ \E i \in 0..(try_i - 1) :
                  /\ selected_unit_ids[k] = str_int(unit_id_of(i))
                  /\ selected_spike_times[k] =
                         spike_train(i, Len(selected_spike_times[k]))
    /\ pc = "done" =>
           /\ traceback = "none"
           /\ \/ num_units_to_plot = target_num_units
              \/ try_i = max_units_to_try

\* All of C28 but its last part holds of the loop.
C28_Selection ==
    /\ try_i <= max_units_to_try
    /\ num_units_to_plot <= target_num_units
    /\ Len(selected_spike_times) = num_units_to_plot
    /\ Len(selected_unit_ids) = num_units_to_plot
    /\ \A k \in 1..Len(selected_spike_times) :
           /\ Len(selected_spike_times[k]) > enough_spikes
           /\ k <= Len(selected_unit_ids)
           /\ \E i \in 0..(try_i - 1) :
                  /\ selected_unit_ids[k] = str_int(unit_id_of(i))
                  /\ selected_spike_times[k] =
                         spike_train(i, Len(selected_spike_times[k]))
    /\ (pc = "done" /\ traceback = "none") =>
           \/ num_units_to_plot = target_num_units
           \/ try_i = max_units_to_try

\* The script ends in the except clause with rows left to examine and
\* fewer than 5 units selected.
C28_EndsInHandler ==
    /\ pc = "done" /\ traceback = "Exception"
    /\ try_i < max_units_to_try
    /\ num_units_to_plot < target_num_units
    /\ num_units_to_plot > 0

=============================================================================
